---- MODULE Spec2Model ----
(***************************************************************************)
(* Zea-Watch: guest ledger migration, record ownership policies and share  *)
(* links.  The browser keeps anonymous analyses in localStorage            *)
(* ('zeawatch_guest_analyses'); after sign-in / sign-up                    *)
(* migrateGuestAnalyses bulk-inserts them into the 'analyses' table, whose *)
(* access is governed by the row-level policies of the SQL schemas.        *)
(* Share links are rows of 'shared_analyses' resolved by the share page;   *)
(* the pages that sign in with the backend keep its access token in        *)
(* localStorage ('auth_token', 'auth_user') and in AuthProvider.           *)
(*   Spec      migration of the guest ledger, strict owner policies        *)
(*   SpecMig   the same against the policies of migration.sql              *)
(*   SpecGate  requests on records, shares and profiles under the policies *)
(*   SpecAuth  sign-in, page load, guarded pages and requests with the     *)
(*             backend's tokens                                            *)
(*   SpecShare the share links of one owner: creation, collision, revoke   *)
(*   SpecNorm  the confidence of one guest record, for every score         *)
(***************************************************************************)
EXTENDS Integers, Sequences, FiniteSets, TLC

\* ------------------------------------------------------------------ bounds
MaxLedger == 2
MaxRows == 3
MaxTime == 1
MaxShares == 1
MaxGateRows == 2
MaxGuest == 2
MaxLinks == 2

\* ------------------------------------------------------------ value domains
NULL == "null"
\* SQL NULL in a timestamp column, and the absent share token
NullTime == -1
NullToken == <<>>
Users == {"u1", "u2", "adm"}
Principals == Users \cup {NULL}
Tabs == {1, 2}
Diseases == {"rust", NULL}
\* classifier scores and confidences in units of 1/1000
Unit == 1000
\* one clock tick is 30 days
ShareTtl == 1
Rnds == {0}
Scores == {900}
\* the three SQL schemas of the repository:
\*   "base"     analyses with strict owner policies (schema of part_021)
\*   "migrated" database/migration.sql: user_id added to an existing analyses
\*              table, policies also accept user_id IS NULL
\*   "v2"       database/schema_supabase.sql: predictions, users.role, admin
\*              select policy, no policy on shared_analyses
Schemas == {"base", "migrated", "v2"}
SignInUsers == {"u1"}
SignUpUsers == {"u1"}

\* users.role as the schema seeds it: one admin account
InitRoles == [u \in Users |-> IF u = "adm" THEN "admin" ELSE "user"]

\* result.confidence <= 1 ? result.confidence * 100 : result.confidence
Normalise(c) == IF c <= Unit THEN c * 100 ELSE c

\* schema    the deployed SQL schema
\* session   the signed-in user of the browser (auth.uid() of its requests)
\* now       the clock
\* ledger    localStorage 'zeawatch_guest_analyses'
\* guestSeq  next id the backend gives an analysis result
\* analyses  rows of the records table; nextId the next generated row id
\* shares    rows of shared_analyses
\* pc, batch, userId, resp, retryOf: per page, the position of its
\*   migrateGuestAnalyses call, the list it read (guestAnalyses), its userId
\*   argument, the outcome of its insert, and whether the call repeats the
\*   previous one
\* page      the share page: the token it resolved, what it shows
\* roles     users.role
\* storage   objects of the 'leaf-images' bucket
\* authToken, authUser: localStorage 'auth_token' and 'auth_user'
\* ctx       state of AuthProvider (user, token)
\* cookie    the refresh_token cookie
\* out       outcome of the last call to the backend API
\* dialog    outcome of the last request on shared_analyses made from the
\*           history page (the share dialog or the alert)
\* route     location of the tab of the AuthProvider
\* view      what the page at that location has rendered ("redirect": it
\*           rendered nothing and pushed the location the tab is at now)
\* adminCalls  users on whose context the admin page has called /api/admin
VARIABLES schema, session, now, ledger, guestSeq, analyses, nextId, shares,
          pc, batch, userId, resp, retryOf,
          page, roles, storage, authToken, authUser, ctx, cookie, out,
          dialog, route, view, adminCalls

vars == <<schema, session, now, ledger, guestSeq, analyses, nextId, shares,
          pc, batch, userId, resp, retryOf,
          page, roles, storage, authToken, authUser, ctx, cookie, out,
          dialog, route, view, adminCalls>>
tabvars == <<pc, batch, userId, resp, retryOf>>
authvars == <<authToken, authUser, ctx, cookie, out>>
uivars == <<dialog, route, view, adminCalls>>

\* --------------------------------------------------------- row-level policies
\* auth.uid() = user_id is never true when either side is NULL
UidIs(p, owner) == p # NULL /\ owner # NULL /\ p = owner

\* EXISTS (SELECT 1 FROM users WHERE id = auth.uid() AND role = 'admin')
Role(u) == roles[u]

IsAdmin(p) == p # NULL /\ Role(p) = "admin"

LiveShare(id) ==
    \E s \in shares : /\ s.analysis_id = id
                      /\ s.share_token # NullToken
                      /\ (s.expires_at = NullTime \/ s.expires_at > now)

\* FOR SELECT policies of the records table (permissive policies are OR-ed)
SelectPolicy(p, row) ==
    \/ UidIs(p, row.user_id)
    \/ schema \in {"migrated", "v2"} /\ row.user_id = NULL
    \/ schema = "v2" /\ IsAdmin(p)
    \/ LiveShare(row.id)

\* FOR INSERT ... WITH CHECK
InsertPolicy(p, row) ==
    \/ UidIs(p, row.user_id)
    \/ schema \in {"migrated", "v2"} /\ row.user_id = NULL

\* FOR UPDATE ... USING; without WITH CHECK the same expression is applied to
\* the new row.  The predictions table of v2 has no UPDATE policy.
UpdatePolicy(p, row) ==
    \/ schema \in {"base", "migrated"} /\ UidIs(p, row.user_id)
    \/ schema = "migrated" /\ row.user_id = NULL

\* FOR DELETE ... USING.  The predictions table of v2 has no DELETE policy.
DeletePolicy(p, row) ==
    \/ schema \in {"base", "migrated"} /\ UidIs(p, row.user_id)
    \/ schema = "migrated" /\ row.user_id = NULL

\* FOR INSERT on shared_analyses ... WITH CHECK (EXISTS (SELECT 1 FROM analyses
\* ...)); the sub-select sees the rows the caller may select.  v2 enables RLS
\* on shared_analyses without any policy.
ShareInsertPolicy(p, aid) ==
    \E row \in analyses :
        /\ row.id = aid
        /\ SelectPolicy(p, row)
        /\ \/ schema \in {"base", "migrated"} /\ UidIs(p, row.user_id)
           \/ schema = "migrated" /\ row.user_id = NULL

\* FOR SELECT on shared_analyses: the shares of the caller's analyses, and
\* every share that has not expired
ShareSelectPolicy(p, s) ==
    \/ \E row \in analyses :
          /\ row.id = s.analysis_id
          /\ SelectPolicy(p, row)
          /\ \/ schema \in {"base", "migrated"} /\ UidIs(p, row.user_id)
             \/ schema = "migrated" /\ row.user_id = NULL
    \/ /\ schema \in {"base", "migrated"}
       /\ s.share_token # NullToken
       /\ (s.expires_at = NullTime \/ s.expires_at > now)

\* NOT NULL column constraints of the analyses table (disease stands for the
\* columns disease, confidence, description, recommendation)
RowConstraints(row) == row.disease # NULL

\* ----------------------------------------------------------------- helpers
\* ToInsert without its `user_id: userId` line: the column is left NULL
ToInsert_NoOwner(g, uid) ==
    [user_id |-> NULL, disease |-> g.disease,
     confidence |-> Normalise(g.confidence), created_at |-> g.created_at]

\* the object migrateGuestAnalyses builds for one guest analysis; the id the
\* analysis got from the backend is not among the copied fields
ToInsert(g, uid) ==
    [user_id |-> uid, disease |-> g.disease,
     confidence |-> Normalise(g.confidence), created_at |-> g.created_at]

WithId(r, i) ==
    [id |-> i, user_id |-> r.user_id, disease |-> r.disease,
     confidence |-> r.confidence, created_at |-> r.created_at]

\* rows a bulk insert of the sequence rs adds, with generated ids
InsertedRows(rs) == { WithId(rs[i], nextId + i - 1) : i \in DOMAIN rs }

BulkInsertOk(p, rs) ==
    \A i \in DOMAIN rs : InsertPolicy(p, rs[i]) /\ RowConstraints(rs[i])

RECURSIVE FilterSeq(_, _)
\* guestAnalyses.filter((a) => a.id !== id)
FilterSeq(s, id) ==
    IF s = <<>> THEN <<>>
    ELSE IF Head(s).id # id THEN <<Head(s)>> \o FilterSeq(Tail(s), id)
         ELSE FilterSeq(Tail(s), id)

MapBatch(gs, uid) == [i \in DOMAIN gs |-> ToInsert(gs[i], uid)]

\* `${analysis.id}-${Date.now()}-${random}`: the tokens a share URL may carry
ShareTokens == (1..MaxGateRows) \X (0..MaxTime) \X Rnds

\* the messages of the share page
NotFoundOrExpired == "Share link not found or expired"
HasExpired == "This share link has expired"
AnalysisNotFound == "Analysis not found"

\* ------------------------------------------------ backend token service
\* lifetimes of the access token (1 hour) and of the refresh token (30 days),
\* in clock ticks: the model keeps their order
AccessTtl == 1
RefreshTtl == 2
AuthUsers == {"u1", "adm"}

\* no token (null), no user (null), no call made yet
NoToken == [sub |-> NULL, role |-> NULL, exp |-> NullTime]
NoUser == [id |-> NULL, role |-> NULL]
NoOut == [op |-> NULL, status |-> NULL, login_id |-> NULL, me_id |-> NULL]

\* POST /api/auth/login: the access token carries subject, role and expiry;
\* the refresh token goes into an HTTP-only cookie
Issue(u) == [sub |-> u, role |-> roles[u], exp |-> now + AccessTtl]
IssueRefresh(u) == [sub |-> u, role |-> roles[u], exp |-> now + RefreshTtl]

\* verification of a bearer token by the backend
Verify(tok) == tok # NoToken /\ tok.exp > now

\* GET /api/auth/me
Me(tok) == IF Verify(tok) THEN [id |-> tok.sub, role |-> roles[tok.sub]] ELSE NoUser

\* the share page before fetchSharedAnalysis has run
NoPage == [token |-> NullToken, at |-> 0, link |-> {}, error |-> NULL, analysis |-> {}]

\* the history page before any request on shared_analyses
NoDialog == [op |-> NULL, status |-> NULL, token |-> NullToken, attempts |-> 0]

\* -------------------------------------------------------------------- Init
Init ==
    /\ schema = "base"
    /\ session = NULL
    /\ now = 0
    /\ ledger = <<>>
    /\ guestSeq = 1
    /\ analyses = {}
    /\ nextId = 1
    /\ shares = {}
    /\ pc = [t \in Tabs |-> "idle"]
    /\ batch = [t \in Tabs |-> <<>>]
    /\ userId = [t \in Tabs |-> NULL]
    /\ resp = [t \in Tabs |-> "none"]
    /\ retryOf = [t \in Tabs |-> "no"]
    /\ page = NoPage
    /\ roles = InitRoles
    /\ storage = {}
    /\ authToken = NoToken
    /\ authUser = NoUser
    /\ ctx = [user |-> NoUser, token |-> NoToken, isLoading |-> FALSE]
    /\ cookie = NoToken
    /\ out = NoOut
    /\ dialog = NoDialog
    /\ route = "home"
    /\ view = "none"
    /\ adminCalls = {}

\* ----------------------------------------------------------------- actions
Tick ==
    /\ now < MaxTime
    /\ now' = now + 1
    /\ UNCHANGED <<schema, session, ledger, guestSeq, analyses, nextId, shares, tabvars>>
    /\ UNCHANGED <<page, roles, storage, authvars, uivars>>

\* uploadImageToStorage(file, userId): the object path is users/<userId>/<name>
\* or guests/<name>; <name> is made of the clock and a random string and is
\* taken to be new on every call (n stands for it)
StoragePath(uid, n) == <<IF uid # NULL THEN "users" ELSE "guests", uid, n>>

\* analyzeImage, guest branch: upload the image to the bucket, then push the
\* normalised result on the ledger; the result carries the id the backend gave
\* the analysis.  (A failed upload is caught and only leaves image_url unset.)
GuestAnalyze ==
    /\ session = NULL
    /\ Len(ledger) < MaxLedger
    /\ guestSeq <= MaxGuest
    /\ \E d \in Diseases, s \in Scores :
         ledger' = Append(ledger, [id |-> guestSeq, disease |-> d,
                                   confidence |-> Normalise(s),
                                   created_at |-> now])
    /\ guestSeq' = guestSeq + 1
    /\ storage' = storage \cup {StoragePath(NULL, guestSeq)}
    /\ UNCHANGED <<schema, session, now, analyses, nextId, shares, tabvars>>
    /\ UNCHANGED <<page, roles, authvars, uivars>>

\* deleteHistoryItem, guest branch: drop the ledger entries with the given id
DeleteGuestItem(id) ==
    /\ session = NULL
    /\ \E i \in DOMAIN ledger : ledger[i].id = id
    /\ ledger' = FilterSeq(ledger, id)
    /\ UNCHANGED <<schema, session, now, guestSeq, analyses, nextId, shares, tabvars>>
    /\ UNCHANGED <<page, roles, storage, authvars, uivars>>

\* migrateGuestAnalyses up to its await: read the ledger, return when it is
\* empty, otherwise send the bulk insert.  retryOf[t] remembers whether this
\* call repeats, for the same user and the same list, the previous call of the
\* page when that call was applied by the database ("ok": confirmed, "lost":
\* applied but the response never arrived).
MigrateStart(t, uid) ==
    /\ pc[t] \in {"idle", "done"}
    /\ retryOf' = [retryOf EXCEPT ![t] =
                     IF /\ ledger # <<>>
                        /\ ledger = batch[t]
                        /\ uid = userId[t]
                        /\ resp[t] \in {"ok", "lost"}
                     THEN resp[t] ELSE "no"]
    /\ batch' = [batch EXCEPT ![t] = ledger]
    /\ userId' = [userId EXCEPT ![t] = uid]
    /\ IF ledger = <<>>
         THEN pc' = [pc EXCEPT ![t] = "done"] /\ resp' = [resp EXCEPT ![t] = "empty"]
         ELSE pc' = [pc EXCEPT ![t] = "insert"] /\ resp' = [resp EXCEPT ![t] = "none"]

\* SignInPage.handleSubmit of the page that signs in with Supabase: signIn
\* (supabase.auth.signInWithPassword), migrate
SignIn(t, u) ==
    /\ session' = u
    /\ MigrateStart(t, u)
    /\ UNCHANGED <<schema, now, ledger, guestSeq, analyses, nextId, shares>>
    /\ UNCHANGED <<page, roles, storage, authvars, uivars>>

\* SignUpPage.handleSubmit: signUp, migrate; signUp may or may not leave a
\* session (e-mail confirmation pending)
SignUp(t, u, withSession) ==
    /\ session' = IF withSession THEN u ELSE session
    /\ MigrateStart(t, u)
    /\ UNCHANGED <<schema, now, ledger, guestSeq, analyses, nextId, shares>>
    /\ UNCHANGED <<page, roles, storage, authvars, uivars>>

\* MigrateInsert without the `if (error) throw error` of the caller: the
\* continuation that clears the ledger runs after a rejected insert too
MigrateInsert_NoThrow(t, delivered) ==
    /\ pc[t] = "insert"
    /\ Cardinality(analyses) + Len(batch[t]) <= MaxRows
    /\ LET rs == MapBatch(batch[t], userId[t]) IN
         IF BulkInsertOk(session, rs)
         THEN /\ analyses' = analyses \cup InsertedRows(rs)
              /\ nextId' = nextId + Len(rs)
              /\ IF delivered
                   THEN pc' = [pc EXCEPT ![t] = "clear"] /\ resp' = [resp EXCEPT ![t] = "ok"]
                   ELSE pc' = [pc EXCEPT ![t] = "done"] /\ resp' = [resp EXCEPT ![t] = "lost"]
         ELSE /\ UNCHANGED <<analyses, nextId>>
              /\ pc' = [pc EXCEPT ![t] = "clear"]
              /\ resp' = [resp EXCEPT ![t] = "error"]
    /\ UNCHANGED <<schema, session, now, ledger, guestSeq, shares, batch, userId, retryOf>>
    /\ UNCHANGED <<page, roles, storage, authvars, uivars>>

\* MigrateInsert under a handler without the try/catch around the call of
\* migrateGuestAnalyses: the error reaches the outer catch, which shows it
\* and skips the redirect
MigrateInsert_NoCatch(t, delivered) ==
    /\ pc[t] = "insert"
    /\ Cardinality(analyses) + Len(batch[t]) <= MaxRows
    /\ LET rs == MapBatch(batch[t], userId[t]) IN
         IF BulkInsertOk(session, rs)
         THEN /\ analyses' = analyses \cup InsertedRows(rs)
              /\ nextId' = nextId + Len(rs)
              /\ IF delivered
                   THEN pc' = [pc EXCEPT ![t] = "clear"] /\ resp' = [resp EXCEPT ![t] = "ok"]
                   ELSE pc' = [pc EXCEPT ![t] = "done"] /\ resp' = [resp EXCEPT ![t] = "lost"]
         ELSE /\ UNCHANGED <<analyses, nextId>>
              /\ pc' = [pc EXCEPT ![t] = "failed"]
              /\ resp' = [resp EXCEPT ![t] = "error"]
    /\ UNCHANGED <<schema, session, now, ledger, guestSeq, shares, batch, userId, retryOf>>
    /\ UNCHANGED <<page, roles, storage, authvars, uivars>>

\* the bulk insert reaches the database: one statement, all rows or none;
\* the response reaches the caller (delivered) or is lost on the way back
MigrateInsert(t, delivered) ==
    /\ pc[t] = "insert"
    /\ Cardinality(analyses) + Len(batch[t]) <= MaxRows
    /\ LET rs == MapBatch(batch[t], userId[t]) IN
         IF BulkInsertOk(session, rs)
         THEN /\ analyses' = analyses \cup InsertedRows(rs)
              /\ nextId' = nextId + Len(rs)
              /\ IF delivered
                   THEN pc' = [pc EXCEPT ![t] = "clear"] /\ resp' = [resp EXCEPT ![t] = "ok"]
                   ELSE pc' = [pc EXCEPT ![t] = "done"] /\ resp' = [resp EXCEPT ![t] = "lost"]
         ELSE /\ UNCHANGED <<analyses, nextId>>
              /\ pc' = [pc EXCEPT ![t] = "done"]
              /\ resp' = [resp EXCEPT ![t] = "error"]
    /\ UNCHANGED <<schema, session, now, ledger, guestSeq, shares, batch, userId, retryOf>>
    /\ UNCHANGED <<page, roles, storage, authvars, uivars>>

\* continuation after a successful insert: localStorage.removeItem
MigrateClear(t) ==
    /\ pc[t] = "clear"
    /\ ledger' = <<>>
    /\ pc' = [pc EXCEPT ![t] = "done"]
    /\ UNCHANGED <<schema, session, now, guestSeq, analyses, nextId, shares,
                   batch, userId, resp, retryOf>>
    /\ UNCHANGED <<page, roles, storage, authvars, uivars>>

\* signOut of lib/auth: supabase.auth.signOut
Logout ==
    /\ session # NULL
    /\ session' = NULL
    /\ UNCHANGED <<schema, now, ledger, guestSeq, analyses, nextId, shares, tabvars>>
    /\ UNCHANGED <<page, roles, storage, authvars, uivars>>

Next ==
    \/ Tick
    \/ GuestAnalyze
    \/ \E id \in 1..MaxGuest : DeleteGuestItem(id)
    \/ \E t \in Tabs, u \in SignInUsers : SignIn(t, u)
    \/ \E t \in Tabs, u \in SignUpUsers, w \in BOOLEAN : SignUp(t, u, w)
    \/ \E t \in Tabs, d \in BOOLEAN : MigrateInsert(t, d)
    \/ \E t \in Tabs : MigrateClear(t)
    \/ Logout

Spec == Init /\ [][Next]_vars

\* ------------------------------------------------- record and share requests
\* rows that exist before the user_id column is added have no owner
LegacyRows ==
    {[id |-> 1, user_id |-> NULL, disease |-> "rust",
      confidence |-> Normalise(900), created_at |-> 0]}

InitGate ==
    /\ schema \in Schemas
    /\ session = NULL
    /\ now = 0
    /\ ledger = <<>>
    /\ guestSeq = 1
    /\ analyses = IF schema = "migrated" THEN LegacyRows ELSE {}
    /\ nextId = IF schema = "migrated" THEN 2 ELSE 1
    /\ shares = {}
    /\ pc = [t \in Tabs |-> "idle"]
    /\ batch = [t \in Tabs |-> <<>>]
    /\ userId = [t \in Tabs |-> NULL]
    /\ resp = [t \in Tabs |-> "none"]
    /\ retryOf = [t \in Tabs |-> "no"]
    /\ page = NoPage
    /\ roles = InitRoles
    /\ storage = {}
    /\ authToken = NoToken
    /\ authUser = NoUser
    /\ ctx = [user |-> NoUser, token |-> NoToken, isLoading |-> FALSE]
    /\ cookie = NoToken
    /\ out = NoOut
    /\ dialog = NoDialog
    /\ route = "home"
    /\ view = "none"
    /\ adminCalls = {}

\* the migration of the guest ledger against the database of migration.sql,
\* whose insert policy also accepts rows without owner
InitMig == InitGate /\ schema = "migrated"

SpecMig == InitMig /\ [][Next]_vars

\* signIn of lib/auth: supabase.auth.signInWithPassword
Login(u) ==
    /\ session' = u
    /\ UNCHANGED <<schema, now, ledger, guestSeq, analyses, nextId, shares, tabvars>>
    /\ UNCHANGED <<page, roles, storage, authvars, uivars>>

\* analyzeImage, signed-in branch: upload the image, insert one row owned by
\* the caller
AuthAnalyze ==
    /\ session # NULL
    /\ nextId <= MaxGateRows
    /\ \E s \in Scores :
         LET row == [id |-> nextId, user_id |-> session, disease |-> "rust",
                     confidence |-> Normalise(s), created_at |-> now] IN
           /\ InsertPolicy(session, row)
           /\ RowConstraints(row)
           /\ analyses' = analyses \cup {row}
    /\ nextId' = nextId + 1
    /\ storage' = storage \cup {StoragePath(session, nextId)}
    /\ UNCHANGED <<schema, session, now, ledger, guestSeq, shares, tabvars>>
    /\ UNCHANGED <<page, roles, authvars, uivars>>

\* deleteHistoryItem, signed-in branch: .delete().eq('id', id).eq('user_id', user.id)
DeleteHistoryItem(id) ==
    /\ session # NULL
    /\ \E row \in analyses : row.id = id
    /\ analyses' = { row \in analyses :
                       ~ (/\ row.id = id
                          /\ row.user_id = session
                          /\ DeletePolicy(session, row)) }
    /\ shares' = { s \in shares : \E row \in analyses' : row.id = s.analysis_id }
    /\ UNCHANGED <<schema, session, now, ledger, guestSeq, nextId, tabvars>>
    /\ UNCHANGED <<page, roles, storage, authvars, uivars>>

\* a DELETE on the records table by id, filtered by the delete policy only
DbDelete(id) ==
    /\ \E row \in analyses : row.id = id /\ DeletePolicy(session, row)
    /\ analyses' = { row \in analyses : row.id # id }
    /\ shares' = { s \in shares : s.analysis_id # id }
    /\ UNCHANGED <<schema, session, now, ledger, guestSeq, nextId, tabvars>>
    /\ UNCHANGED <<page, roles, storage, authvars, uivars>>

\* an UPDATE of user_id on the records table, filtered by the update policy
DbUpdate(id, owner) ==
    /\ \E row \in analyses :
         /\ row.id = id
         /\ row.user_id # owner
         /\ UpdatePolicy(session, row)
         /\ UpdatePolicy(session, [row EXCEPT !.user_id = owner])
         /\ analyses' = (analyses \ {row}) \cup {[row EXCEPT !.user_id = owner]}
    /\ UNCHANGED <<schema, session, now, ledger, guestSeq, nextId, shares, tabvars>>
    /\ UNCHANGED <<page, roles, storage, authvars, uivars>>

\* handleShare against a share_token column without UNIQUE
HandleShare_NoUnique(aid, rnd) ==
    /\ \E row \in analyses : row.id = aid
    /\ LET token == <<aid, now, rnd>> IN
         IF ShareInsertPolicy(session, aid)
         THEN /\ shares' = shares \cup {[share_token |-> token, analysis_id |-> aid,
                                          expires_at |-> now + ShareTtl,
                                          created_at |-> now]}
              /\ dialog' = [op |-> "share", status |-> "ok", token |-> token,
                            attempts |-> 1]
         ELSE /\ shares' = shares
              /\ dialog' = [op |-> "share", status |-> "error", token |-> token,
                            attempts |-> 1]
    /\ UNCHANGED <<schema, session, now, ledger, guestSeq, analyses, nextId, tabvars>>
    /\ UNCHANGED <<page, roles, storage, authvars, route, view, adminCalls>>

\* HistoryPage.handleShare: token from id, clock and a random suffix,
\* expires_at = now + 30 days; one insert, and on any error of it (policy,
\* or the UNIQUE constraint of share_token) the alert, with no second attempt
HandleShare(aid, rnd) ==
    /\ \E row \in analyses : row.id = aid
    /\ LET token == <<aid, now, rnd>> IN
         IF /\ ShareInsertPolicy(session, aid)
            /\ \A s \in shares : s.share_token # token
         THEN /\ shares' = shares \cup {[share_token |-> token, analysis_id |-> aid,
                                          expires_at |-> now + ShareTtl,
                                          created_at |-> now]}
              /\ dialog' = [op |-> "share", status |-> "ok", token |-> token,
                            attempts |-> 1]
         ELSE /\ shares' = shares
              /\ dialog' = [op |-> "share", status |-> "error", token |-> token,
                            attempts |-> 1]
    /\ UNCHANGED <<schema, session, now, ledger, guestSeq, analyses, nextId, tabvars>>
    /\ UNCHANGED <<page, roles, storage, authvars, route, view, adminCalls>>

\* an INSERT on shared_analyses sent with the public key, filtered by the
\* insert policy only: expires_at is nullable and has no default, so the
\* request may leave it out (NULL) or set it to the present instant
DbShareInsert(aid, rnd, withExpiry) ==
    /\ \E row \in analyses : row.id = aid
    /\ LET token == <<aid, now, rnd>> IN
         /\ ShareInsertPolicy(session, aid)
         /\ \A s \in shares : s.share_token # token
         /\ shares' = shares \cup {[share_token |-> token, analysis_id |-> aid,
                                     expires_at |-> IF withExpiry THEN now ELSE NullTime,
                                     created_at |-> now]}
    /\ UNCHANGED <<schema, session, now, ledger, guestSeq, analyses, nextId, tabvars>>
    /\ UNCHANGED <<page, roles, storage, authvars, uivars>>

\* shared_analyses has row level security enabled and policies FOR INSERT
\* and FOR SELECT only: no row passes an UPDATE
ShareUpdatePolicy(p, s) == FALSE

\* the revocation of a link: no handler of the application does it, so it is
\* the request UPDATE shared_analyses SET expires_at = now() WHERE
\* share_token = tok sent with the public key; rows the policy filters out
\* are skipped without an error
DbShareUpdate(tok) ==
    /\ \E s \in shares : s.share_token = tok
    /\ shares' = {IF s.share_token = tok /\ ShareUpdatePolicy(session, s)
                    THEN [s EXCEPT !.expires_at = now] ELSE s : s \in shares}
    /\ dialog' = [op |-> "revoke", status |-> "ok", token |-> tok, attempts |-> 1]
    /\ UNCHANGED <<schema, session, now, ledger, guestSeq, analyses, nextId, tabvars>>
    /\ UNCHANGED <<page, roles, storage, authvars, route, view, adminCalls>>

\* FOR UPDATE on users ... USING (auth.uid() = id): no WITH CHECK and no
\* column restriction; users.role exists in the v2 schema only, with
\* CHECK (role IN ('user', 'admin'))
UserUpdatePolicy(p, uid) == UidIs(p, uid)

\* updateUserProfile(userId, updates) with a role among the updates:
\* supabase.from('users').update(updates).eq('id', userId)
UpdateUserProfile(uid, r) ==
    /\ schema = "v2"
    /\ r \in {"user", "admin"}
    /\ UserUpdatePolicy(session, uid)
    /\ roles[uid] # r
    /\ roles' = [roles EXCEPT ![uid] = r]
    /\ UNCHANGED <<schema, session, now, ledger, guestSeq, analyses, nextId, shares, tabvars>>
    /\ UNCHANGED <<page, storage, authvars, uivars>>

\* SharePage.fetchSharedAnalysis for the token of the URL.  Both selects go
\* through the row-level policies with the caller's identity; .single() fails
\* when no row is visible.  page.at and page.link record the instant of the
\* call and the row the table holds for the token, visible or not; link and
\* analysis are sets of at most one row.
FetchSharedAnalysis(tok) ==
    /\ LET link == { s \in shares : s.share_token = tok }
           sharedData == { s \in link : ShareSelectPolicy(session, s) }
           base == [token |-> tok, at |-> now, link |-> link,
                    error |-> NULL, analysis |-> {}]
       IN IF sharedData = {}
            THEN page' = [base EXCEPT !.error = NotFoundOrExpired]
            ELSE LET sd == CHOOSE s \in sharedData : TRUE
                     analysisData == { r \in analyses : /\ r.id = sd.analysis_id
                                                        /\ SelectPolicy(session, r) }
                 IN IF sd.expires_at # NullTime /\ sd.expires_at < now
                      THEN page' = [base EXCEPT !.error = HasExpired]
                      ELSE IF analysisData = {}
                             THEN page' = [base EXCEPT !.error = AnalysisNotFound]
                             ELSE page' = [base EXCEPT !.analysis = analysisData]
    /\ UNCHANGED <<schema, session, now, ledger, guestSeq, analyses, nextId, shares, tabvars>>
    /\ UNCHANGED <<roles, storage, authvars, uivars>>

\* the records a share request may name while the table holds fewer than
\* cap links (the bound on the size of shared_analyses)
ShareSlots(cap) == IF Cardinality(shares) < cap THEN 1..MaxGateRows ELSE {}

NextGate ==
    \/ Tick
    \/ \E u \in Users : Login(u)
    \/ Logout
    \/ AuthAnalyze
    \/ \E id \in 1..MaxGateRows : DeleteHistoryItem(id)
    \/ \E id \in 1..MaxGateRows : DbDelete(id)
    \/ \E id \in 1..MaxGateRows, o \in Principals : DbUpdate(id, o)
    \/ \E id \in ShareSlots(MaxShares), rnd \in Rnds : HandleShare(id, rnd)
    \/ \E id \in ShareSlots(MaxShares), rnd \in Rnds, e \in BOOLEAN :
          DbShareInsert(id, rnd, e)
    \/ \E tok \in ShareTokens : FetchSharedAnalysis(tok)
    \/ \E u \in Users, r \in {"user", "admin"} : UpdateUserProfile(u, r)

SpecGate == InitGate /\ [][NextGate]_vars

\* ------------------------------------------ confidence along the guest path
\* every score the classifier can return, in steps of 1/1000
AllScores == 0..Unit

\* a guest who has analysed one image with score s: the state GuestAnalyze
\* leaves for that score
InitNorm ==
    \E s \in AllScores :
        /\ schema = "base"
        /\ session = NULL
        /\ now = 0
        /\ ledger = <<[id |-> 1, disease |-> "rust",
                       confidence |-> Normalise(s), created_at |-> 0]>>
        /\ guestSeq = 2
        /\ analyses = {}
        /\ nextId = 1
        /\ shares = {}
        /\ pc = [t \in Tabs |-> "idle"]
        /\ batch = [t \in Tabs |-> <<>>]
        /\ userId = [t \in Tabs |-> NULL]
        /\ resp = [t \in Tabs |-> "none"]
        /\ retryOf = [t \in Tabs |-> "no"]
        /\ page = NoPage
        /\ roles = InitRoles
        /\ storage = {StoragePath(NULL, 1)}
        /\ authToken = NoToken
        /\ authUser = NoUser
        /\ ctx = [user |-> NoUser, token |-> NoToken, isLoading |-> FALSE]
        /\ cookie = NoToken
        /\ out = NoOut
        /\ dialog = NoDialog
        /\ route = "home"
        /\ view = "none"
        /\ adminCalls = {}

\* the guest signs in and the ledger is migrated
NextNorm ==
    \/ \E t \in Tabs, u \in SignInUsers : SignIn(t, u)
    \/ \E t \in Tabs, d \in BOOLEAN : MigrateInsert(t, d)
    \/ \E t \in Tabs : MigrateClear(t)

SpecNorm == InitNorm /\ [][NextNorm]_vars

\* ------------------------------------------------- the table of share links
\* the requests on shared_analyses of one signed-in owner, base schema
InitShare == InitGate /\ schema = "base"

NextShare ==
    \/ Tick
    \/ \E u \in SignInUsers : Login(u)
    \/ AuthAnalyze
    \/ \E id \in ShareSlots(MaxLinks), rnd \in Rnds : HandleShare(id, rnd)
    \/ \E id \in ShareSlots(MaxLinks), rnd \in Rnds, e \in BOOLEAN :
          DbShareInsert(id, rnd, e)
    \/ \E tok \in ShareTokens : DbShareUpdate(tok)

SpecShare == InitShare /\ [][NextShare]_vars

\* ------------------------------------------------------- the guarded pages
\* pages that read `loading` from useAuth()
PlainPages == {"uploads", "settings", "recommendations"}
ProtectedPages == PlainPages \cup {"dashboard"}
GuardedPages == ProtectedPages \cup {"admin"}

\* the value AuthProvider hands to useAuth()
CtxValue ==
    [user |-> ctx.user, token |-> ctx.token, isLoading |-> ctx.isLoading,
     isAuthenticated |-> ctx.user # NoUser,
     isAdmin |-> ctx.user.role = "admin"]

\* the truth value of a flag destructured from that value: a key the value
\* does not have yields undefined, which is falsy
Flag(f) == IF f \in DOMAIN CtxValue THEN CtxValue[f] ELSE FALSE

\* the URL of a guarded page is opened: a page load with a new AuthProvider
Open(pg) ==
    /\ route' = pg
    /\ view' = "none"
    /\ ctx' = [user |-> NoUser, token |-> NoToken, isLoading |-> TRUE]
    /\ UNCHANGED <<schema, session, now, ledger, guestSeq, analyses, nextId, shares, tabvars>>
    /\ UNCHANGED <<page, roles, storage, authToken, authUser, cookie, out>>
    /\ UNCHANGED <<dialog, adminCalls>>

\* a link of the Navbar is followed: the AuthProvider stays
Navigate(pg) ==
    /\ ~ ctx.isLoading
    /\ route # pg
    /\ route' = pg
    /\ view' = "none"
    /\ UNCHANGED <<schema, session, now, ledger, guestSeq, analyses, nextId, shares, tabvars>>
    /\ UNCHANGED <<page, roles, storage, authvars, dialog, adminCalls>>

\* UploadsPage, SettingsPage, RecommendationsPage, one render:
\* const { user, loading } = useAuth(); if (loading) spinner;
\* if (!user) { router.push('/signin'); return null }; content
ProtectedPage(pg) ==
    /\ route = pg
    /\ IF Flag("loading")
         THEN view' = "spinner" /\ route' = route
         ELSE IF ctx.user = NoUser
                THEN route' = "signin" /\ view' = "redirect"
                ELSE view' = "content" /\ route' = route
    /\ UNCHANGED <<schema, session, now, ledger, guestSeq, analyses, nextId, shares, tabvars>>
    /\ UNCHANGED <<page, roles, storage, authvars, dialog, adminCalls>>

\* DashboardPage, one render with its effect:
\* const { user, isLoading: authLoading } = useAuth();
\* effect: if (authLoading) return; if (!user) router.push('/signin')
DashboardPage ==
    /\ route = "dashboard"
    /\ IF Flag("isLoading")
         THEN view' = "spinner" /\ route' = route
         ELSE IF ctx.user = NoUser
                THEN route' = "signin" /\ view' = "redirect"
                ELSE view' = "content" /\ route' = route
    /\ UNCHANGED <<schema, session, now, ledger, guestSeq, analyses, nextId, shares, tabvars>>
    /\ UNCHANGED <<page, roles, storage, authvars, dialog, adminCalls>>

\* AdminPage with fetchData and the content under isAuthenticated alone
AdminPage_NoRoleTest ==
    /\ route = "admin"
    /\ LET isAdminCtx == Flag("isAuthenticated")
           target == IF Flag("isLoading") THEN route
                     ELSE IF ~ Flag("isAuthenticated") THEN "signin"
                     ELSE IF ~ Flag("isAdmin") THEN "dashboard"
                     ELSE route
       IN /\ route' = target
          /\ adminCalls' = IF isAdminCtx THEN adminCalls \cup {ctx.user.id}
                            ELSE adminCalls
          /\ view' = IF target # route THEN "redirect"
                      ELSE IF Flag("isLoading") \/ ~ isAdminCtx THEN "spinner"
                      ELSE "content"
    /\ UNCHANGED <<schema, session, now, ledger, guestSeq, analyses, nextId, shares, tabvars>>
    /\ UNCHANGED <<page, roles, storage, authvars, dialog>>

\* AdminPage, one render with its two effects: the redirect when the context
\* has loaded, fetchData (the requests to /api/admin) when the context
\* reports an admin, and the content under the same test.  The page shows no
\* control that changes the context, so the requests of one fetchData are
\* sent under the context the effect has seen.
AdminPage ==
    /\ route = "admin"
    /\ LET isAdminCtx == Flag("isAuthenticated") /\ Flag("isAdmin")
           target == IF Flag("isLoading") THEN route
                     ELSE IF ~ Flag("isAuthenticated") THEN "signin"
                     ELSE IF ~ Flag("isAdmin") THEN "dashboard"
                     ELSE route
       IN /\ route' = target
          /\ adminCalls' = IF isAdminCtx THEN adminCalls \cup {ctx.user.id}
                            ELSE adminCalls
          /\ view' = IF target # route THEN "redirect"
                      ELSE IF Flag("isLoading") \/ ~ isAdminCtx THEN "spinner"
                      ELSE "content"
    /\ UNCHANGED <<schema, session, now, ledger, guestSeq, analyses, nextId, shares, tabvars>>
    /\ UNCHANGED <<page, roles, storage, authvars, dialog>>

\* ------------------------------------------- sign-in with the backend's tokens
\* a page load: AuthProvider starts with user = token = null, isLoading = true
Reload ==
    /\ ~ ctx.isLoading
    /\ ctx' = [user |-> NoUser, token |-> NoToken, isLoading |-> TRUE]
    /\ view' = "none"
    /\ UNCHANGED <<schema, session, now, ledger, guestSeq, analyses, nextId, shares, tabvars>>
    /\ UNCHANGED <<page, roles, storage, authToken, authUser, cookie, out>>
    /\ UNCHANGED <<dialog, route, adminCalls>>

\* a value of localStorage 'auth_user' that is not JSON text
Unparsable == [id |-> "?", role |-> "?"]

\* JSON.parse(storedUser) returns (TRUE) or throws (FALSE)
Parses(v) == v # Unparsable

\* AuthProvider, effect on mount: when localStorage holds both items,
\* setToken(storedToken), then setUser(JSON.parse(storedUser)); when the
\* parse throws, setToken has already been called and the catch block only
\* removes the two items; then setIsLoading(false)
Mount ==
    /\ ctx.isLoading
    /\ route \in GuardedPages => view # "none"
    /\ IF authToken # NoToken /\ authUser # NoUser
         THEN IF Parses(authUser)
                THEN /\ ctx' = [user |-> authUser, token |-> authToken,
                                 isLoading |-> FALSE]
                     /\ UNCHANGED <<authToken, authUser>>
                ELSE /\ ctx' = [user |-> NoUser, token |-> authToken,
                                 isLoading |-> FALSE]
                     /\ authToken' = NoToken
                     /\ authUser' = NoUser
         ELSE /\ ctx' = [user |-> NoUser, token |-> NoToken, isLoading |-> FALSE]
              /\ UNCHANGED <<authToken, authUser>>
    /\ UNCHANGED <<schema, session, now, ledger, guestSeq, analyses, nextId, shares, tabvars>>
    /\ UNCHANGED <<page, roles, storage, cookie, out, uivars>>

\* SignInSubmit with the token for /auth/me read from localStorage before the
\* access token of the login response is stored there
SignInSubmit_StaleToken(t, u) ==
    /\ ~ ctx.isLoading
    /\ LET access == Issue(u)
           token == IF authToken # NoToken THEN authToken ELSE access
           user == Me(token)
       IN /\ cookie' = IssueRefresh(u)
          /\ out' = [op |-> "signIn",
                     status |-> IF user # NoUser THEN "ok" ELSE "error",
                     login_id |-> u, me_id |-> user.id]
          /\ IF user # NoUser
               THEN /\ authToken' = access
                    /\ authUser' = user
                    /\ ctx' = [user |-> user, token |-> access, isLoading |-> FALSE]
                    /\ MigrateStart(t, user.id)
                    /\ route' = "dashboard"
                    /\ view' = "none"
               ELSE /\ authToken' = NoToken
                    /\ UNCHANGED <<authUser, ctx, tabvars, route, view>>
    /\ UNCHANGED <<schema, session, now, ledger, guestSeq, analyses, nextId, shares>>
    /\ UNCHANGED <<page, roles, storage, dialog, adminCalls>>

\* SignInPage.handleSubmit of the page that signs in with the backend: signIn
\* of lib/auth (POST /auth/login, store the access token, GET /auth/me with
\* it), login(token, user) of AuthProvider, migrateGuestAnalyses(user.id),
\* router.push('/dashboard').  No Supabase session is opened.  The redirect
\* is taken with the sign-in: it follows whatever the migration does.
SignInSubmit(t, u) ==
    /\ ~ ctx.isLoading
    /\ LET access == Issue(u)
           token == access
           user == Me(token)
       IN /\ cookie' = IssueRefresh(u)
          /\ out' = [op |-> "signIn",
                     status |-> IF user # NoUser THEN "ok" ELSE "error",
                     login_id |-> u, me_id |-> user.id]
          /\ IF user # NoUser
               THEN /\ authToken' = token
                    /\ authUser' = user
                    /\ ctx' = [user |-> user, token |-> token, isLoading |-> FALSE]
                    /\ MigrateStart(t, user.id)
                    /\ route' = "dashboard"
                    /\ view' = "none"
               ELSE /\ authToken' = NoToken
                    /\ UNCHANGED <<authUser, ctx, tabvars, route, view>>
    /\ UNCHANGED <<schema, session, now, ledger, guestSeq, analyses, nextId, shares>>
    /\ UNCHANGED <<page, roles, storage, dialog, adminCalls>>

\* AuthProvider.logout, router.push('/signin') included
ContextLogout ==
    /\ ~ ctx.isLoading
    /\ ctx.user # NoUser
    /\ ctx' = [user |-> NoUser, token |-> NoToken, isLoading |-> FALSE]
    /\ authToken' = NoToken
    /\ authUser' = NoUser
    /\ route' = "signin"
    /\ view' = "none"
    /\ UNCHANGED <<schema, session, now, ledger, guestSeq, analyses, nextId, shares, tabvars>>
    /\ UNCHANGED <<page, roles, storage, cookie, out, dialog, adminCalls>>

\* authFetch(path): no token in localStorage: throw 'Not authenticated';
\* otherwise send the request with the token and throw when the response is
\* not ok.  Nothing is written.
AuthFetch ==
    /\ out' = [op |-> "authFetch",
               status |-> IF authToken = NoToken THEN "Not authenticated"
                          ELSE IF Verify(authToken) THEN "ok" ELSE "Request failed",
               login_id |-> NULL,
               me_id |-> IF Verify(authToken) THEN authToken.sub ELSE NULL]
    /\ UNCHANGED <<schema, session, now, ledger, guestSeq, analyses, nextId, shares, tabvars>>
    /\ UNCHANGED <<page, roles, storage, authToken, authUser, ctx, cookie, uivars>>

\* what localStorage may hold when the application is opened: nothing, or
\* the items an earlier visit left (a token that has expired by now or not,
\* a user, or an 'auth_user' value that is not JSON text)
StoredTokens ==
    {NoToken} \cup {[sub |-> "u1", role |-> "user", exp |-> e] : e \in {0, AccessTtl}}

StoredUsers == {NoUser, Unparsable, [id |-> "u1", role |-> "user"]}

\* the application is opened: AuthProvider starts with isLoading = true
InitAuth ==
    /\ schema = "base"
    /\ session = NULL
    /\ now = 0
    /\ ledger = <<>>
    /\ guestSeq = 1
    /\ analyses = {}
    /\ nextId = 1
    /\ shares = {}
    /\ pc = [t \in Tabs |-> "idle"]
    /\ batch = [t \in Tabs |-> <<>>]
    /\ userId = [t \in Tabs |-> NULL]
    /\ resp = [t \in Tabs |-> "none"]
    /\ retryOf = [t \in Tabs |-> "no"]
    /\ page = NoPage
    /\ roles = InitRoles
    /\ storage = {}
    /\ authToken \in StoredTokens
    /\ authUser \in StoredUsers
    /\ ctx = [user |-> NoUser, token |-> NoToken, isLoading |-> TRUE]
    /\ cookie = NoToken
    /\ out = NoOut
    /\ dialog = NoDialog
    /\ route = "home"
    /\ view = "none"
    /\ adminCalls = {}

NextAuth ==
    \/ Tick
    \/ Reload
    \/ Mount
    \/ \E t \in Tabs, u \in AuthUsers : SignInSubmit(t, u)
    \/ ContextLogout
    \/ AuthFetch
    \/ \E pg \in GuardedPages : Open(pg)
    \/ \E pg \in GuardedPages : Navigate(pg)
    \/ \E pg \in PlainPages : ProtectedPage(pg)
    \/ DashboardPage
    \/ AdminPage

SpecAuth == InitAuth /\ [][NextAuth]_vars

\* ------------------------------------------------------ properties: migration
\* the fields that identify a migrated analysis
Fingerprint(r) == <<r.created_at, r.disease, r.confidence>>

\* rows of tbl owned by u that derive from the guest analysis g
RowsFor(tbl, u, g) ==
    { r \in tbl : r.user_id = u /\ Fingerprint(r) = Fingerprint(ToInsert(g, u)) }

\* entries of the list b equal to its i-th entry
Occ(b, i) == Cardinality({ j \in DOMAIN b : b[j] = b[i] })

Applied(t) == resp[t] \in {"ok", "lost"}

\* C1: when migrate is called a second time with the same list for the same
\* user after a first call that the database applied, the table still holds
\* exactly one Record per guest record of the list (nothing is created twice).
C1_Orig ==
    \A t \in Tabs :
        (retryOf[t] # "no" /\ Applied(t)) =>
            \A i \in DOMAIN batch[t] :
                Cardinality(RowsFor(analyses, userId[t], batch[t][i])) <= Occ(batch[t], i)

\* C2: when two pages migrate the same list for the same user at the same time
\* (one has its insert confirmed and has not cleared the ledger yet, the other
\* has its insert confirmed too), the table holds at most one Record per guest
\* record.
C2_Orig ==
    \A t1 \in Tabs : \A t2 \in Tabs \ {t1} :
        (/\ pc[t1] = "clear"
         /\ resp[t2] = "ok"
         /\ batch[t1] = batch[t2]
         /\ userId[t1] = userId[t2]) =>
            \A i \in DOMAIN batch[t1] :
                Cardinality(RowsFor(analyses, userId[t1], batch[t1][i])) <= Occ(batch[t1], i)

\* C3: a retry of a batch whose earlier request was applied but whose response
\* was lost adds no Record.
C3_Orig ==
    [][\A t \in Tabs :
          (pc[t] = "insert" /\ retryOf[t] = "lost" /\ pc'[t] # "insert") =>
              Cardinality(analyses') = Cardinality(analyses)]_vars

\* C4: the ledger loses entries only when the guest deletes one of them, or in
\* the continuation of a migrate call whose insert was confirmed, and then
\* every entry of the migrated list has a Record owned by the user; it is never
\* cleared after an error or a lost response.
C4_ClearOnlyAfterConfirm ==
    [][Len(ledger') < Len(ledger) =>
          \/ /\ session = NULL /\ pc' = pc
             /\ \E id \in 1..guestSeq : ledger' = FilterSeq(ledger, id)
          \/ \E t \in Tabs :
                /\ pc[t] = "clear" /\ pc'[t] = "done"
                /\ resp[t] = "ok"
                /\ \A i \in DOMAIN batch[t] :
                      RowsFor(analyses, userId[t], batch[t][i]) # {}]_vars

C4_Witness ==
    \E t \in Tabs :
        /\ pc[t] = "done" /\ resp[t] = "ok"
        /\ batch[t] # <<>> /\ ledger = <<>>
        /\ \E t2 \in Tabs \ {t} : resp[t2] \in {"lost", "error"}

\* C5: when the insert of one guest record fails on a column constraint, the
\* call raises no error and every other record of the batch is stored.
C5_Orig ==
    [][\A t \in Tabs :
          (/\ pc[t] = "insert" /\ pc'[t] # "insert"
           /\ \A i \in DOMAIN batch[t] :
                 InsertPolicy(session, ToInsert(batch[t][i], userId[t]))) =>
              /\ resp'[t] # "error"
              /\ \A i \in DOMAIN batch[t] :
                    RowConstraints(ToInsert(batch[t][i], userId[t])) =>
                        RowsFor(analyses', userId[t], batch[t][i]) # {}]_vars

\* C6: one migrate call adds at most one Record for guest records that agree
\* on created_at, label and score.
C6_Orig ==
    [][\A t \in Tabs :
          (pc[t] = "insert" /\ pc'[t] # "insert") =>
              \A i \in DOMAIN batch[t] :
                  Cardinality(RowsFor(analyses', userId[t], batch[t][i]) \
                              RowsFor(analyses, userId[t], batch[t][i])) <= 1]_vars

\* C16: every Record a migrate call inserts is owned by the user the call was
\* made for, and has an owner.
C16_MigrateOwner ==
    [][\A r \in analyses' \ analyses :
          \E t \in Tabs : /\ pc[t] = "insert" /\ pc'[t] # "insert"
                          /\ r.user_id = userId[t]
                          /\ r.user_id # NULL]_vars

C16_Witness ==
    /\ schema = "migrated"
    /\ \E r \in analyses : r.user_id = NULL
    /\ \E t \in Tabs :
          /\ resp[t] = "ok" /\ Len(batch[t]) = 2
          /\ Cardinality({ r \in analyses : r.user_id = userId[t] }) >= 2

\* C17: an analysis made without a session goes to the ledger only: the step
\* that appends it writes nothing on the server, neither a row nor an object.
C17_Orig ==
    [][(session = NULL /\ Len(ledger') > Len(ledger)) =>
          (analyses' = analyses /\ storage' = storage)]_vars

\* ----------------------------------------------- properties: ownership policies
Permit(p, row) == IsAdmin(p) \/ UidIs(p, row.user_id)

\* C7: a Record disappears only on a request of its owner or of an admin.
C7_Orig ==
    [][\A r \in analyses :
          (\A r2 \in analyses' : r2.id # r.id) => Permit(session, r)]_vars

\* C8: a Record that has an owner can be read by a principal exactly when the
\* principal is an admin or that owner.
C8_Orig ==
    \A p \in Principals : \A r \in analyses :
        r.user_id # NULL => (SelectPolicy(p, r) <=> Permit(p, r))

\* C9: a Record persisted with an owner keeps that owner, and the owner is
\* never null, across every step.
C9_Orig ==
    [][\A r \in analyses : \A r2 \in analyses' :
          (r2.id = r.id /\ r.user_id # NULL) =>
              (r2.user_id = r.user_id /\ r2.user_id # NULL)]_vars

\* C10: a ShareLink is added only on a request of the owner of its Record or
\* of an admin.
C10_Orig ==
    [][\A s \in shares' \ shares :
          \E r \in analyses : r.id = s.analysis_id /\ Permit(session, r)]_vars
\* ------------------------------------------------------ properties: share links
\* C11: a resolution made at or after the expiry of its link (the instant of
\* equality included) never returns the record.
C11_Orig ==
    \A s \in page.link :
        (s.expires_at # NullTime /\ s.expires_at <= page.at) => page.analysis = {}

\* C12: a link stored without expires_at stops resolving once the default
\* lifetime of a link has passed since its creation.
C12_Orig ==
    \A s \in page.link :
        (s.expires_at = NullTime /\ page.at >= s.created_at + ShareTtl) =>
            page.analysis = {}

\* C13: a failed resolution of a token the table holds shows the response of
\* a token the table does not hold.
C13_Orig ==
    (page.link # {} /\ page.analysis = {}) => page.error = NotFoundOrExpired

\* C14: the record a resolution returns carries no owner field.
C14_Orig ==
    \A r \in page.analysis : "user_id" \notin DOMAIN r
\* -------------------------------------------------------- properties: roles
\* C15: a user becomes admin only on a request made by an admin; no request
\* of a non-admin user, an update of the own profile included, does it.
C15_Orig ==
    [][\A u \in Users :
          (roles[u] # "admin" /\ roles'[u] = "admin") => IsAdmin(session)]_vars
\* ------------------------------------------------------- properties: tokens
\* C18: when AuthProvider resolves the identity of the page, it yields a user
\* only for a token that passes verification; a missing or failing token
\* yields no user.
C18_Orig ==
    [][(ctx.isLoading /\ ~ ctx'.isLoading) =>
          (ctx'.user # NoUser => Verify(ctx'.token))]_vars

\* the refresh token of the cookie is still good
RefreshOk == cookie # NoToken /\ cookie.exp > now

\* C19: a request made with an expired access token while the refresh token
\* is still good goes through (after one silent refresh), without a new
\* sign-in.
C19_Orig ==
    [][(/\ out'.op = "authFetch" /\ out' # out
        /\ authToken # NoToken /\ ~ Verify(authToken)
        /\ RefreshOk) => out'.status = "ok"]_vars

C21_Orig ==
    \A s \in page.link :
        (s.expires_at # NullTime /\ s.expires_at = s.created_at) =>
            page.analysis = {}
\* C22: a revocation made by the owner of the record leaves the link expired
\* at the present instant: a link that was live gets expires_at = now, and a
\* link that had already expired is left as it was.
C22_Orig ==
    [][(dialog' # dialog /\ dialog'.op = "revoke" /\ dialog'.status = "ok") =>
          \A s \in shares :
              (/\ s.share_token = dialog'.token
               /\ \E r \in analyses : r.id = s.analysis_id /\ UidIs(session, r.user_id))
              => IF s.expires_at # NullTime /\ s.expires_at <= now
                 THEN s \in shares'
                 ELSE [s EXCEPT !.expires_at = now] \in shares']_vars
\* C23: no two rows of shared_analyses hold the same token.
C23_UniqueTokens ==
    \A s1, s2 \in shares : s1.share_token = s2.share_token => s1 = s2

\* a share request whose token the table already held was refused
C23_Witness ==
    /\ dialog.op = "share" /\ dialog.status = "error"
    /\ ShareInsertPolicy(session, dialog.token[1])
    /\ \E s \in shares : s.share_token = dialog.token
\* C24: a share request fails on a collision of its token only after it has
\* generated a new token and tried again at least once.
C24_Orig ==
    (/\ dialog.op = "share" /\ dialog.status = "error"
     /\ ShareInsertPolicy(session, dialog.token[1])
     /\ \E s \in shares : s.share_token = dialog.token)
    => dialog.attempts > 1
\* ---------------------------------------------- properties: the guest ledger
\* C25: a guest record leaves the ledger only when the user deletes it or
\* when the table holds a Record of it owned by the migrating user; this
\* covers a record added while a migration is between its insert and its
\* clearing of the ledger.
C25_Orig ==
    [][\A i \in DOMAIN ledger :
          (~ \E j \in DOMAIN ledger' : ledger'[j] = ledger[i]) =>
              \/ /\ session = NULL /\ pc' = pc
                 /\ ledger' = FilterSeq(ledger, ledger[i].id)
              \/ \E t \in Tabs :
                    /\ pc[t] = "clear" /\ pc'[t] = "done"
                    /\ RowsFor(analyses', userId[t], ledger[i]) # {}]_vars
\* C26: when the migration started by a sign-in or a sign-up fails (the
\* insert is rejected, or its response never arrives), the handler goes on to
\* its redirect, the session of the sign-in stays, and the ledger is as it was.
C26_MigrateFailureKeepsAuth ==
    [][\A t \in Tabs :
          (pc[t] = "insert" /\ pc'[t] # "insert" /\ resp'[t] \in {"error", "lost"})
          => (pc'[t] = "done" /\ ledger' = ledger /\ session' = session)]_vars

\* a sign-in whose migration was rejected: signed in, redirected, ledger kept
C26_Witness ==
    \E t \in Tabs :
        /\ pc[t] = "done" /\ resp[t] = "error"
        /\ session # NULL /\ session = userId[t]
        /\ ledger # <<>> /\ ledger = batch[t]
\* --------------------------------------------------- properties: confidence
\* C30: the confidence of every Record a migration inserts equals the
\* confidence the guest ledger holds for the record it was made from.
C30_Orig ==
    [][\A r \in analyses' \ analyses :
          \E i \in DOMAIN ledger :
              /\ ledger[i].created_at = r.created_at
              /\ ledger[i].disease = r.disease
              /\ ledger[i].confidence = r.confidence]_vars
\* ------------------------------------------------- properties: AuthProvider
\* C27: whenever AuthProvider is not loading, its token and its user are
\* both set or both null, whatever localStorage held at mount.
C27_Orig ==
    (~ ctx.isLoading) => (ctx.token = NoToken <=> ctx.user = NoUser)
\* ----------------------------------------------- properties: guarded pages
\* C28: while localStorage holds a token that has not expired and a user,
\* no step takes the tab from a protected page to /signin (a logout, which
\* empties localStorage, is not such a step).
C28_Orig ==
    [][~ (/\ route \in ProtectedPages /\ route' = "signin"
          /\ Verify(authToken) /\ authUser # NoUser /\ Parses(authUser)
          /\ authToken' = authToken /\ authUser' = authUser)]_vars

\* C29: the admin page calls /api/admin and shows its content only under a
\* context that reports an authenticated admin; once the context has
\* loaded, its render sends an anonymous visitor to /signin and a user who
\* is not admin to /dashboard, and neither render calls /api/admin.
C29_AdminOnly ==
    [][/\ adminCalls' # adminCalls =>
             (route = "admin" /\ ctx.user # NoUser /\ ctx.user.role = "admin")
       /\ (route' = "admin" /\ view' = "content") =>
             (ctx'.user # NoUser /\ ctx'.user.role = "admin" /\ ~ ctx'.isLoading)
       /\ (/\ route = "admin" /\ ~ ctx.isLoading
           /\ view' \in {"spinner", "content", "redirect"}
           /\ (view' # view \/ route' # route)) =>
             /\ ctx.user = NoUser =>
                   (/\ route' = "signin" /\ view' = "redirect"
                    /\ adminCalls' = adminCalls)
             /\ (ctx.user # NoUser /\ ctx.user.role # "admin") =>
                   (/\ route' = "dashboard" /\ view' = "redirect"
                    /\ adminCalls' = adminCalls)]_vars

\* the admin page has shown its content to a signed-in admin, and the only
\* calls to /api/admin were made under that admin's context
C29_Witness ==
    /\ route = "admin" /\ view = "content"
    /\ ctx.user.role = "admin"
    /\ adminCalls = {"adm"}
    /\ out.op = "signIn" /\ out.login_id = "adm"
====
